---- MODULE Spec2Model ----
(***************************************************************************)
(* DocSplitter (src/main.py): splitting one HWPX document into sections    *)
(* along marker pages (process_file) and merging the HWPX documents of a   *)
(* folder into one (merge_hwpx_files).                                     *)
(*                                                                         *)
(* Three specifications:                                                   *)
(*   SpecSeg   - split_by_template applied to drawn inputs                 *)
(*   Spec      - one invocation of process_file, step by step              *)
(*   SpecMerge - one invocation of merge_hwpx_files, step by step          *)
(***************************************************************************)
EXTENDS Integers, Sequences, FiniteSets, TLC

VARIABLES
    pc,             \* position of the running invocation
    fs,             \* files: path -> file value, for the paths that exist
    dirs,           \* directory path -> "dir" | "absent" | "blocked"
    fs0,            \* the files as they were when the invocation started
    dirs0,          \* the directories as they were when it started
    log,            \* messages passed to log_callback, in order
    faults,         \* environment I/O faults injected so far
    input_file, output_dir, template, skip_pages,      \* process_file arguments
    tree, xml_path, sections, i,                       \* process_file locals
    input_folder, output_folder,                       \* merge_hwpx_files arguments
    files, base_tree, merged_pages, fidx, merged_tree  \* merge_hwpx_files locals

vars == << pc, fs, dirs, fs0, dirs0, log, faults,
           input_file, output_dir, template, skip_pages,
           tree, xml_path, sections, i,
           input_folder, output_folder,
           files, base_tree, merged_pages, fidx, merged_tree >>

(***************************************************************************)
(* Bounds of the model.                                                    *)
(***************************************************************************)
MaxPages == 5          \* pages of a tree handed to split_by_template (SpecSeg)
MaxTemplateLen == 2    \* characters of a marker
MaxDocPages == 3       \* pages of the document process_file splits (Spec)
MaxMergePages == 2     \* pages of a document merge_hwpx_files reads (SpecMerge)
MaxFaults == 1         \* environment I/O faults per invocation

Chars == {"a", "b"}

\* The text fragments of a page, in document order (what itertext() yields).
\* "baa" comes in two fragments, so a marker may span fragments.
PageRuns == { <<>>, << <<"a", "b">> >>, << <<"b">>, <<"a", "a">> >> }
DocRuns == { << <<"a", "b">> >>, << <<"b">>, <<"a", "a">> >> }

None == [none |-> TRUE]

(***************************************************************************)
(* Sequences.                                                              *)
(***************************************************************************)
Range(s) == { s[k] : k \in DOMAIN s }

SeqsUpTo(S, n) == UNION { [1..k -> S] : k \in 0..n }

RECURSIVE Flatten(_)
Flatten(ss) == IF ss = <<>> THEN <<>> ELSE Head(ss) \o Flatten(Tail(ss))

Last(s) == s[Len(s)]

Min(a, b) == IF a <= b THEN a ELSE b

(***************************************************************************)
(* Pages and trees.                                                        *)
(* A page is one top-level child of the root: src, idx and copy are its    *)
(* identity as an object (the file and position it was parsed from, and    *)
(* whether it is a deep copy), runs its text fragments.                    *)
(***************************************************************************)
Page(src, idx, runs) == [src |-> src, idx |-> idx, copy |-> FALSE, runs |-> runs]

\* pages parsed from a sequence of fragment lists
PagesOf(src, rs) == [k \in 1..Len(rs) |-> Page(src, k, rs[k])]

\* ''.join(page.itertext())
PageText(page) == Flatten(page.runs)

\* template in page_text
Contains(t, s) ==
    \E k \in 0..(Len(s) - Len(t)) : SubSeq(s, k + 1, k + Len(t)) = t

IsMarkerPage(page, tmpl) == Contains(tmpl, PageText(page))

\* pages[skip_pages:]
DropFirst(pages, n) == SubSeq(pages, n + 1, Len(pages))

\* slip: a marker page starts a new section without the open one being kept
SplitStepLosesOpen(st, page, tmpl) ==
    IF IsMarkerPage(page, tmpl)
    THEN [sections |-> st.sections, current_section |-> <<page>>]
    ELSE [sections |-> st.sections,
          current_section |-> IF st.current_section # <<>>
                              THEN Append(st.current_section, page)
                              ELSE st.current_section]

\* slip: a page before the first marker page opens a section
SplitStepKeepsOrphans(st, page, tmpl) ==
    IF IsMarkerPage(page, tmpl)
    THEN [sections |-> IF st.current_section # <<>>
                       THEN Append(st.sections, st.current_section)
                       ELSE st.sections,
          current_section |-> <<page>>]
    ELSE [sections |-> st.sections,
          current_section |-> Append(st.current_section, page)]

\* One iteration of the loop of split_by_template on `page`:
\* st = [sections, current_section].
SplitStep(st, page, tmpl) ==
    IF IsMarkerPage(page, tmpl)
    THEN [sections |-> IF st.current_section # <<>>
                       THEN Append(st.sections, st.current_section)
                       ELSE st.sections,
          current_section |-> <<page>>]
    ELSE [sections |-> st.sections,
          current_section |-> IF st.current_section # <<>>
                              THEN Append(st.current_section, page)
                              ELSE st.current_section]

RECURSIVE SplitLoop(_, _, _)
SplitLoop(st, pages, tmpl) ==
    IF pages = <<>> THEN st
    ELSE SplitLoop(SplitStep(st, Head(pages), tmpl), Tail(pages), tmpl)

split_by_template(t, tmpl, skip) ==
    LET pages == DropFirst(t.pages, skip)
        st == SplitLoop([sections |-> <<>>, current_section |-> <<>>], pages, tmpl)
    IN  IF st.current_section # <<>>
        THEN Append(st.sections, st.current_section)
        ELSE st.sections

(***************************************************************************)
(* XML bytes: a sequence of tokens. Serialising drops the identity of the  *)
(* page objects; parsing makes new ones.                                   *)
(***************************************************************************)
DeclTok == [k |-> "decl"]
OpenTok(root) == [k |-> "open", root |-> root]
ElemTok(runs) == [k |-> "elem", runs |-> runs]
CloseTok == [k |-> "close"]

\* ET.tostring(root, encoding="utf-8", method="xml"): no declaration
tostring(t) ==
    <<OpenTok(t.root)>> \o [k \in 1..Len(t.pages) |-> ElemTok(t.pages[k].runs)]
        \o <<CloseTok>>

\* b'<?xml version="1.0" encoding="utf-8"?>\n' + xml_bytes
XmlContent(t) == <<DeclTok>> \o tostring(t)

XmlBody(bytes) ==
    IF bytes # <<>> /\ bytes[1].k = "decl" THEN Tail(bytes) ELSE bytes

WellFormed(bytes) ==
    LET b == XmlBody(bytes)
    IN  /\ Len(b) >= 2
        /\ b[1].k = "open"
        /\ b[Len(b)].k = "close"
        /\ \A k \in 2..(Len(b) - 1) : b[k].k = "elem"

\* ET.parse(f) on well-formed bytes read from file `src`
ParseXml(src, bytes) ==
    LET b == XmlBody(bytes)
    IN  [root |-> b[1].root,
         pages |-> [k \in 1..(Len(b) - 2) |-> Page(src, k, b[k + 1].runs)]]

\* copy.deepcopy(pages): new objects with the same content
DeepCopy(pages) == [k \in DOMAIN pages |-> [pages[k] EXCEPT !.copy = TRUE]]

\* create_section_tree
create_section_tree(original_tree, section_pages) ==
    [root |-> original_tree.root, pages |-> DeepCopy(section_pages)]

(***************************************************************************)
(* Files. A path is [dir, name]; a name is [base, num, ext]. A file is a   *)
(* zip archive (an ordered list of members [name, data]) or raw bytes that *)
(* are no archive.                                                         *)
(***************************************************************************)
ContentPath == "Contents/section0.xml"

Name(base, num, ext) == [base |-> base, num |-> num, ext |-> ext]
Path(dir, name) == [dir |-> dir, name |-> name]

\* f'section_{i}.hwpx'
SectionName(k) == Name("section_", k, "hwpx")
\* "merged.hwpx"
MergedName == Name("merged", 0, "hwpx")

RawFile == [kind |-> "raw"]
Zip(members) == [kind |-> "zip", members |-> members]
Member(name, data) == [name |-> name, data |-> data]
Blob(owner, name) == [blob |-> <<owner, name>>]

IsZip(fsv, path) == path \in DOMAIN fsv /\ fsv[path].kind = "zip"

Names(members) == [k \in DOMAIN members |-> members[k].name]

\* z.read(name) / z.open(name)
ReadMember(members, name) ==
    (CHOOSE m \in Range(members) : m.name = name).data

\* extract_hwpx_xml: [ok, tree, xml_path]; ok = FALSE stands for the raised
\* Exception.
extract_hwpx_xml(fsv, file_path) ==
    IF /\ IsZip(fsv, file_path)
       /\ ContentPath \in Range(Names(fsv[file_path].members))
       /\ WellFormed(ReadMember(fsv[file_path].members, ContentPath))
    THEN [ok |-> TRUE,
          tree |-> ParseXml(file_path,
                            ReadMember(fsv[file_path].members, ContentPath)),
          xml_path |-> ContentPath]
    ELSE [ok |-> FALSE]

\* Index of the first member whose transfer raises, Len(items) + 1 when none
\* does. Member k raises when the environment faults on it, or when it is
\* read from the reference after opening the output for writing has
\* truncated that very file.
FirstFailure(items, xp, aliased, fault) ==
    LET bad == { k \in 1..Len(items) :
                    fault = k \/ (aliased /\ items[k].name # xp) }
    IN  IF bad = {} THEN Len(items) + 1
        ELSE CHOOSE k \in bad : \A j \in bad : k <= j

\* slip: the content member is copied like any other member
TransferCopiesAll(items, item, section_tree, xp) ==
    Member(item.name, ReadMember(items, item.name))

\* The member written for `item` of the reference: lines 71-77.
Transfer(items, item, section_tree, xp) ==
    IF item.name = xp
    THEN Member(item.name, XmlContent(section_tree))
    ELSE Member(item.name, ReadMember(items, item.name))

\* slip: members are written in reverse order
WrittenReversed(items, section_tree, xp, n) ==
    [k \in 1..n |-> Transfer(items, items[Len(items) + 1 - k], section_tree, xp)]

\* The first n members written to the output, in the order of zin.infolist().
Written(items, section_tree, xp, n) ==
    [k \in 1..n |-> Transfer(items, items[k], section_tree, xp)]

\* create_section_hwpx: [ok, fs]; ok = FALSE stands for a raised exception.
\* fault: 0 none, -1 the output cannot be opened for writing, k >= 1 an I/O
\* error while member k is transferred. An exception inside the with blocks
\* closes the output, which then holds the members written before it.
create_section_hwpx(fsv, dirsv, original_file, section_tree, xp, output_file, fault) ==
    IF \/ ~IsZip(fsv, original_file)
       \/ dirsv[output_file.dir] # "dir"
       \/ fault = -1
    THEN [ok |-> FALSE, fs |-> fsv]
    ELSE LET items == fsv[original_file].members
             stop == FirstFailure(items, xp, output_file = original_file, fault)
         IN  [ok |-> stop = Len(items) + 1,
              fs |-> (output_file :> Zip(Written(items, section_tree, xp, stop - 1)))
                        @@ fsv]

\* os.makedirs(path, exist_ok=True): raises when the path cannot be made a
\* directory (it exists as a regular file, or permission is denied)
MakedirsRaises(dirsv, path) == dirsv[path] = "blocked"
Makedirs(dirsv, path) == [dirsv EXCEPT ![path] = "dir"]

(***************************************************************************)
(* Listing and sorting a folder.                                           *)
(***************************************************************************)
\* str.lower() on the extensions of the model
Lower(ext) == CASE ext = "HWPX" -> "hwpx"
                [] ext = "HWTX" -> "hwtx"
                [] OTHER -> ext

\* file.lower().endswith(('.hwpx', '.hwtx'))
HasDocExt(name) == Lower(name.ext) \in {"hwpx", "hwtx"}

\* Code-point order of the strings of the model.
BaseRank(base) == CASE base = "a" -> 1
                    [] base = "b" -> 2
                    [] base = "merged" -> 3
                    [] base = "section_" -> 4
                    [] base = "z" -> 5
ExtRank(ext) == CASE ext = "HWPX" -> 1
                  [] ext = "HWTX" -> 2
                  [] ext = "hwpx" -> 3
                  [] ext = "hwtx" -> 4
                  [] ext = "txt" -> 5

\* p < q for two paths of one folder, as str.__lt__ orders them
PathLess(p, q) ==
    \/ BaseRank(p.name.base) < BaseRank(q.name.base)
    \/ /\ p.name.base = q.name.base
       /\ \/ p.name.num < q.name.num
          \/ p.name.num = q.name.num /\ ExtRank(p.name.ext) < ExtRank(q.name.ext)

RECURSIVE Insert(_, _)
Insert(s, p) ==
    IF s = <<>> THEN <<p>>
    ELSE IF PathLess(p, Head(s)) THEN <<p>> \o s
    ELSE <<Head(s)>> \o Insert(Tail(s), p)

RECURSIVE SortFrom(_, _)
SortFrom(acc, s) ==
    IF s = <<>> THEN acc ELSE SortFrom(Insert(acc, Head(s)), Tail(s))

\* slip: the list is left in os.listdir order
Unsorted(s) == s

\* files.sort()
Sorted(s) == SortFrom(<<>>, s)

\* the files list built by lines 122-125 from one os.listdir order
RECURSIVE DocFiles(_, _)
DocFiles(folder, listing) ==
    IF listing = <<>> THEN <<>>
    ELSE IF HasDocExt(Head(listing))
         THEN <<Path(folder, Head(listing))>> \o DocFiles(folder, Tail(listing))
         ELSE DocFiles(folder, Tail(listing))

\* the orders os.listdir may return the names of `folder` in
Listings(fsv, folder) ==
    LET names == { p.name : p \in { q \in DOMAIN fsv : q.dir = folder } }
    IN  { s \in [1..Cardinality(names) -> names] : Range(s) = names }

(***************************************************************************)
(* The documents and folders an invocation may find.                       *)
(***************************************************************************)
Root(owner) == [tag |-> "sec", attrib |-> owner]

\* the content member of a document whose pages hold the fragment lists rs
DocXml(owner, rs) == tostring([root |-> Root(owner), pages |-> PagesOf(owner, rs)])

\* a content member cut off before the root is closed
MalformedXml(owner) == <<OpenTok(Root(owner))>>

FullLayout == <<"mimetype", ContentPath, "Contents/header.xml">>
Layouts == { FullLayout, <<ContentPath>> }
NoContentLayout == <<"mimetype", "Contents/header.xml">>

Archive(owner, layout, xml) ==
    Zip([k \in 1..Len(layout) |->
            Member(layout[k],
                   IF layout[k] = ContentPath THEN xml ELSE Blob(owner, layout[k]))])

GoodArchives(owner, layouts, maxPages) ==
    { Archive(owner, l, DocXml(owner, rs)) :
        l \in layouts, rs \in SeqsUpTo(DocRuns, maxPages) }

BadFiles(owner) ==
    { RawFile, Archive(owner, NoContentLayout, <<>>),
      Archive(owner, FullLayout, MalformedXml(owner)) }

Templates == SeqsUpTo(Chars, MaxTemplateLen)

DirStates == {"dir", "absent", "blocked"}

EmptyFs == [p \in {} |-> None]

Msg(m) == [msg |-> m]

SegSrc == Path("mem", Name("a", 0, "hwpx"))

\* the values of the variables an invocation does not use
IdleSplit ==
    /\ input_file = None /\ output_dir = None
    /\ template = None /\ skip_pages = 0
    /\ tree = None /\ sections = <<>> /\ i = 0

IdleMerge ==
    /\ input_folder = None /\ output_folder = None
    /\ files = <<>> /\ base_tree = None /\ merged_pages = <<>>
    /\ fidx = 0 /\ merged_tree = None

IdleEnv ==
    /\ fs = EmptyFs /\ fs0 = EmptyFs
    /\ dirs = [d \in {"in", "out"} |-> "absent"] /\ dirs0 = dirs
    /\ log = <<>> /\ faults = 0 /\ xml_path = None

(***************************************************************************)
(* SpecSeg: split_by_template on drawn trees, markers and skip counts.     *)
(***************************************************************************)
InitSeg ==
    /\ pc = "seg_call"
    /\ \E rs \in SeqsUpTo(PageRuns, MaxPages) :
          tree = [root |-> Root("a"), pages |-> PagesOf(SegSrc, rs)]
    /\ template \in Templates
    /\ skip_pages \in 0..(MaxPages + 1)
    /\ sections = <<>> /\ i = 0
    /\ input_file = None /\ output_dir = None
    /\ IdleMerge /\ IdleEnv

SegApply ==
    /\ pc = "seg_call"
    /\ sections' = split_by_template(tree, template, skip_pages)
    /\ pc' = "seg_ret"
    /\ UNCHANGED << fs, dirs, fs0, dirs0, log, faults, input_file, output_dir, template,
                    skip_pages, tree, xml_path, i, input_folder, output_folder,
                    files, base_tree, merged_pages, fidx, merged_tree >>

NextSeg == SegApply

SpecSeg == InitSeg /\ [][NextSeg]_vars

(***************************************************************************)
(* Spec: process_file(input_file, output_dir, template, skip_pages,        *)
(* log_callback).                                                          *)
(***************************************************************************)
Init ==
    /\ pc = "pf_extract"
    /\ input_file \in { Path("in", Name("a", 0, "hwpx")),
                       Path("out", SectionName(1)), Path("out", SectionName(2)) }
    /\ output_dir = "out"
    /\ dirs \in [{"in", "out"} -> DirStates]
    /\ dirs["in"] = "dir"
    /\ input_file.dir = "out" => dirs["out"] = "dir"
    /\ \/ fs = EmptyFs
       \/ \E fv \in BadFiles("a") \cup GoodArchives("a", Layouts, MaxDocPages) :
             fs = (input_file :> fv)
    /\ fs0 = fs /\ dirs0 = dirs
    /\ template \in Templates
    /\ skip_pages \in 0..(MaxDocPages + 1)
    /\ log = <<>> /\ faults = 0
    /\ tree = None /\ xml_path = None /\ sections = <<>> /\ i = 0
    /\ IdleMerge

\* the faults the environment may raise in one run of create_section_hwpx
FaultChoices(fsv, reference) ==
    {0} \cup (IF faults < MaxFaults /\ IsZip(fsv, reference)
              THEN {-1} \cup (1..Len(fsv[reference].members))
              ELSE {})

\* lines 84-89
PF_Extract ==
    /\ pc = "pf_extract"
    /\ LET r == extract_hwpx_xml(fs, input_file)
       IN  IF r.ok
           THEN /\ tree' = r.tree
                /\ xml_path' = r.xml_path
                /\ log' = Append(log, Msg("extracting"))
                /\ pc' = "pf_split"
           ELSE /\ log' = log \o << Msg("extracting"), Msg("open_error") >>
                /\ pc' = "returned"
                /\ UNCHANGED << tree, xml_path >>
    /\ UNCHANGED << fs, dirs, fs0, dirs0, faults, input_file, output_dir, template,
                    skip_pages, sections, i, input_folder, output_folder,
                    files, base_tree, merged_pages, fidx, merged_tree >>

\* slip: the check of lines 98-100 is missing
AfterSplitNoCheck(secs) == "pf_mkdir"

\* lines 98-100: if not sections: ... return
AfterSplit(secs) == IF secs = <<>> THEN "returned" ELSE "pf_mkdir"

\* lines 91-100
PF_Split ==
    /\ pc = "pf_split"
    /\ sections' = split_by_template(tree, template, skip_pages)
    /\ pc' = AfterSplit(sections')
    /\ log' = IF pc' = "returned"
              THEN log \o << Msg("splitting"), Msg("no_match") >>
              ELSE Append(log, Msg("splitting"))
    /\ UNCHANGED << fs, dirs, fs0, dirs0, faults, input_file, output_dir, template,
                    skip_pages, tree, xml_path, i, input_folder, output_folder,
                    files, base_tree, merged_pages, fidx, merged_tree >>

\* lines 102-103: os.makedirs is outside every try block
PF_MakeDirs ==
    /\ pc = "pf_mkdir"
    /\ IF MakedirsRaises(dirs, output_dir)
       THEN /\ pc' = "raised"
            /\ UNCHANGED << dirs, log, i >>
       ELSE /\ dirs' = Makedirs(dirs, output_dir)
            /\ log' = Append(log, [msg |-> "found", n |-> Len(sections)])
            /\ i' = 1
            /\ pc' = "pf_loop"
    /\ UNCHANGED << fs, fs0, dirs0, faults, input_file, output_dir, template,
                    skip_pages, tree, xml_path, sections, input_folder,
                    output_folder, files, base_tree, merged_pages, fidx,
                    merged_tree >>

\* os.path.join(output_dir, f'section_{i}.hwpx')
SectionFile(dir, k) == Path(dir, SectionName(k))

\* where process_file goes after the write of section k of n, saved or not:
\* the except clause of lines 112-113 lets the loop go on
AfterWrite(k, n) == IF k < n THEN "pf_loop" ELSE "returned"

\* lines 105-113, one iteration for section i
PF_WriteSection ==
    /\ pc = "pf_loop"
    /\ i \in DOMAIN sections
    /\ \E fault \in FaultChoices(fs, input_file) :
          LET section_tree == create_section_tree(tree, sections[i])
              output_file == SectionFile(output_dir, i)
              r == create_section_hwpx(fs, dirs, input_file, section_tree,
                                       xml_path, output_file, fault)
          IN  /\ fs' = r.fs
              /\ faults' = IF fault = 0 THEN faults ELSE faults + 1
              /\ log' = log \o << [msg |-> "processing", i |-> i],
                                  IF r.ok
                                  THEN [msg |-> "saved", i |-> i, file |-> output_file]
                                  ELSE [msg |-> "save_error", i |-> i] >>
              /\ pc' = AfterWrite(i, Len(sections))
    /\ i' = i + 1
    /\ UNCHANGED << dirs, fs0, dirs0, input_file, output_dir, template, skip_pages,
                    tree, xml_path, sections, input_folder, output_folder,
                    files, base_tree, merged_pages, fidx, merged_tree >>

Next == PF_Extract \/ PF_Split \/ PF_MakeDirs \/ PF_WriteSection

Spec == Init /\ [][Next]_vars

(***************************************************************************)
(* SpecMerge: merge_hwpx_files(input_folder, output_folder, log_callback). *)
(***************************************************************************)
MergeNames == { Name("a", 0, "hwpx"), MergedName, Name("z", 0, "HWTX") }
OtherName == Name("b", 0, "txt")

\* what a name of the input folder may hold; None: no such file
MergeFileChoices(name) ==
    IF name = OtherName THEN {None, RawFile}
    ELSE {None, RawFile, Archive(name.base, FullLayout, MalformedXml(name.base))}
            \cup GoodArchives(name.base, {FullLayout}, MaxMergePages)

\* a folder: what each name holds
FolderChoices ==
    { [n \in MergeNames \cup {OtherName} |->
          CASE n = Name("a", 0, "hwpx") -> fa
            [] n = MergedName -> fm
            [] n = OtherName -> fo
            [] OTHER -> fz] :
        fa \in MergeFileChoices(Name("a", 0, "hwpx")),
        fm \in MergeFileChoices(MergedName),
        fz \in MergeFileChoices(Name("z", 0, "HWTX")),
        fo \in MergeFileChoices(OtherName) }

InitMerge ==
    /\ pc = "mg_list"
    /\ input_folder = "in"
    /\ output_folder \in {"in", "out"}
    /\ dirs \in [{"in", "out"} -> DirStates]
    /\ output_folder = "in" => dirs["out"] = "absent"
    /\ \E f \in FolderChoices :
          /\ dirs["in"] # "dir" => \A n \in DOMAIN f : f[n] = None
          /\ fs = [p \in { Path("in", n) : n \in { m \in DOMAIN f : f[m] # None } }
                     |-> f[p.name]]
    /\ fs0 = fs /\ dirs0 = dirs
    /\ log = <<>> /\ faults = 0 /\ xml_path = None
    /\ files = <<>> /\ base_tree = None /\ merged_pages = <<>>
    /\ fidx = 0 /\ merged_tree = None
    /\ IdleSplit

\* lines 122-130: os.listdir is outside every try block
MG_ListFiles ==
    /\ pc = "mg_list"
    /\ IF dirs[input_folder] # "dir"
       THEN /\ pc' = "raised"
            /\ UNCHANGED << files, log >>
       ELSE \E listing \in Listings(fs, input_folder) :
               /\ files' = Sorted(DocFiles(input_folder, listing))
               /\ IF files' = <<>>
                  THEN /\ log' = Append(log, Msg("no_files"))
                       /\ pc' = "returned"
                  ELSE /\ log' = Append(log, [msg |-> "merging", n |-> Len(files')])
                       /\ pc' = "mg_base"
    /\ UNCHANGED << fs, dirs, fs0, dirs0, faults, input_file, output_dir, template,
                    skip_pages, tree, xml_path, sections, i, input_folder,
                    output_folder, base_tree, merged_pages, fidx, merged_tree >>

\* slip: the return of line 136 is missing
AfterBaseNoReturn(ok) == "mg_loop"

\* lines 134-136: except ...: ... return
AfterBase(ok) == IF ok THEN "mg_loop" ELSE "returned"

\* lines 132-138
MG_ExtractBase ==
    /\ pc = "mg_base"
    /\ LET r == extract_hwpx_xml(fs, files[1])
       IN  /\ pc' = AfterBase(r.ok)
           /\ IF r.ok
              THEN /\ base_tree' = r.tree
                   /\ xml_path' = r.xml_path
                   /\ merged_pages' = <<>>
                   /\ fidx' = 1
                   /\ UNCHANGED log
              ELSE /\ log' = Append(log, Msg("base_error"))
                   /\ UNCHANGED << base_tree, xml_path, merged_pages, fidx >>
    /\ UNCHANGED << fs, dirs, fs0, dirs0, faults, input_file, output_dir, template,
                    skip_pages, tree, sections, i, input_folder, output_folder,
                    files, merged_tree >>

\* where merge_hwpx_files goes after file k of n, read or not: the except
\* clause of lines 146-147 lets the loop go on
AfterFile(k, n) == IF k < n THEN "mg_loop" ELSE "mg_build"

\* merged_pages.extend(copy.deepcopy(pages))
Extend(pages, more) == pages \o DeepCopy(more)

\* lines 139-147, one iteration for files[fidx]
MG_ExtractPages ==
    /\ pc = "mg_loop"
    /\ fidx \in DOMAIN files
    /\ LET file == files[fidx]
           r == extract_hwpx_xml(fs, file)
       IN  /\ IF r.ok
              THEN /\ merged_pages' = Extend(merged_pages, r.tree.pages)
                   /\ log' = Append(log, [msg |-> "extracting_from", file |-> file])
              ELSE /\ log' = log \o << [msg |-> "extracting_from", file |-> file],
                                       [msg |-> "extract_error", file |-> file] >>
                   /\ UNCHANGED merged_pages
           /\ pc' = AfterFile(fidx, Len(files))
    /\ fidx' = fidx + 1
    /\ UNCHANGED << fs, dirs, fs0, dirs0, faults, input_file, output_dir, template,
                    skip_pages, tree, xml_path, sections, i, input_folder,
                    output_folder, files, base_tree, merged_tree >>

\* lines 149-155: os.makedirs is outside every try block
MG_Build ==
    /\ pc = "mg_build"
    /\ merged_tree' = [root |-> base_tree.root, pages |-> merged_pages]
    /\ IF MakedirsRaises(dirs, output_folder)
       THEN /\ pc' = "raised"
            /\ UNCHANGED dirs
       ELSE /\ dirs' = Makedirs(dirs, output_folder)
            /\ pc' = "mg_write"
    /\ UNCHANGED << fs, fs0, dirs0, log, faults, input_file, output_dir, template,
                    skip_pages, tree, xml_path, sections, i, input_folder,
                    output_folder, files, base_tree, merged_pages, fidx >>

\* os.path.join(output_folder, "merged.hwpx")
MergedFile(dir) == Path(dir, MergedName)

\* lines 156-161
MG_Write ==
    /\ pc = "mg_write"
    /\ \E fault \in FaultChoices(fs, files[1]) :
          LET output_file == MergedFile(output_folder)
              r == create_section_hwpx(fs, dirs, files[1], merged_tree,
                                       xml_path, output_file, fault)
          IN  /\ fs' = r.fs
              /\ faults' = IF fault = 0 THEN faults ELSE faults + 1
              /\ log' = Append(log, IF r.ok
                                    THEN [msg |-> "merged_saved", file |-> output_file]
                                    ELSE Msg("merge_error"))
    /\ pc' = "returned"
    /\ UNCHANGED << dirs, fs0, dirs0, input_file, output_dir, template, skip_pages,
                    tree, xml_path, sections, i, input_folder, output_folder,
                    files, base_tree, merged_pages, fidx, merged_tree >>

NextMerge ==
    MG_ListFiles \/ MG_ExtractBase \/ MG_ExtractPages \/ MG_Build \/ MG_Write

SpecMerge == InitMerge /\ [][NextMerge]_vars

(***************************************************************************)
(* Properties of split_by_template (SpecSeg).                              *)
(***************************************************************************)
\* the first skip_pages pages
SegSkipped == SubSeq(tree.pages, 1, Min(skip_pages, Len(tree.pages)))

\* 1-based index in tree.pages of the first marker page after the skipped
\* ones, Len(tree.pages) + 1 when there is none
FirstMarkerIndex ==
    LET hits == { k \in (skip_pages + 1)..Len(tree.pages) :
                     IsMarkerPage(tree.pages[k], template) }
    IN  IF hits = {} THEN Len(tree.pages) + 1
        ELSE CHOOSE k \in hits : \A j \in hits : k <= j

\* the pages after the skipped ones and before the first marker page
SegOrphans == SubSeq(tree.pages, skip_pages + 1, FirstMarkerIndex - 1)

\* C1: split_by_template loses and duplicates nothing: the pages of the
\* returned sections, the first skip_pages pages and the non-marker pages
\* between them and the first marker page are exactly the children of the
\* root, and no page is in two sections or twice in one.
C1_NothingLostOrDuplicated ==
    pc = "seg_ret" =>
        LET kept == Flatten(sections)
            dropped == Range(SegSkipped) \cup Range(SegOrphans)
        IN  /\ Range(kept) \cup dropped = Range(tree.pages)
            /\ Cardinality(Range(kept)) = Len(kept)
            /\ Range(kept) \cap dropped = {}

C1_Witness ==
    /\ pc = "seg_ret"
    /\ skip_pages >= 1
    /\ SegOrphans # <<>>
    /\ Len(sections) >= 2
    /\ \E k \in DOMAIN sections : Len(sections[k]) >= 2

\* C10: for a non-empty marker the sections are the contiguous runs that the
\* marker pages delimit: each is non-empty, starts with a marker page and
\* holds no other marker page, and the sections in order make up the pages
\* from the first marker page at index >= skip_pages through the last page.
C10_SectionsAreMarkerRuns ==
    (pc = "seg_ret" /\ template # <<>>) =>
        /\ \A k \in DOMAIN sections :
              /\ sections[k] # <<>>
              /\ IsMarkerPage(sections[k][1], template)
              /\ \A j \in 2..Len(sections[k]) :
                    ~IsMarkerPage(sections[k][j], template)
        /\ Flatten(sections) =
              SubSeq(tree.pages, FirstMarkerIndex, Len(tree.pages))

\* pages P0..P4, skip 1, the marker in P1 and P3: [[P1, P2], [P3, P4]]
C10_Witness ==
    /\ pc = "seg_ret"
    /\ template # <<>>
    /\ Len(tree.pages) = 5
    /\ skip_pages = 1
    /\ { k \in 2..5 : IsMarkerPage(tree.pages[k], template) } = {2, 4}
    /\ sections = << <<tree.pages[2], tree.pages[3]>>,
                     <<tree.pages[4], tree.pages[5]>> >>

(***************************************************************************)
(* Properties of process_file (Spec).                                      *)
(***************************************************************************)
\* C2: the archive create_section_hwpx writes has the member names of the
\* reference in the same order; every member that is not the content member
\* carries the bytes of the reference member of that name, and the content
\* member carries the serialised replacement tree.
C2_ArchiveFidelity ==
    [][ (Len(log') > Len(log) /\ Last(log').msg = "saved") =>
            LET ref == fs[input_file].members
                out == fs'[Last(log').file].members
                new == XmlContent(create_section_tree(tree, sections[i]))
            IN  /\ Names(out) = Names(ref)
                /\ \A k \in DOMAIN ref :
                      out[k].data = IF ref[k].name = xml_path
                                    THEN new
                                    ELSE ReadMember(ref, ref[k].name) ]_vars

\* a three-member archive was written, the content member in the middle
C2_Witness ==
    /\ pc = "returned"
    /\ \E k \in DOMAIN log :
          /\ log[k].msg = "saved"
          /\ log[k].file # input_file
          /\ Names(fs[log[k].file].members) = FullLayout
          /\ fs[input_file] = fs0[input_file]

\* C3 as claimed: whichever step of the invocation fails, a message is
\* emitted and the invocation returns normally; no exception escapes.
C3_NoFailureEscapes == pc # "raised"

\* C4 as claimed: no input file is modified; the only files created or
\* written are section_<k>.hwpx in the output directory.
C4_InputsUntouched ==
    /\ \A p \in DOMAIN fs0 : p \in DOMAIN fs /\ fs[p] = fs0[p]
    /\ \A p \in DOMAIN fs \ DOMAIN fs0 :
          \E k \in DOMAIN sections : p = SectionFile(output_dir, k)

\* the runs of the pages held by the content member of the archive at path p
StoredRuns(fsv, p) ==
    LET r == extract_hwpx_xml(fsv, p)
    IN  [k \in DOMAIN r.tree.pages |-> r.tree.pages[k].runs]

RunsOf(pages) == [k \in DOMAIN pages |-> pages[k].runs]

\* C5 as claimed: a failed write of section k is reported for k only and the
\* batch goes on: every section's write is attempted, and a write reported as
\* saved left section_<j>.hwpx holding exactly section j's pages in order.
C5_IndependentSectionWrites ==
    /\ \A k \in DOMAIN log :
          log[k].msg = "saved" =>
             /\ log[k].file = SectionFile(output_dir, log[k].i)
             /\ extract_hwpx_xml(fs, log[k].file).ok
             /\ StoredRuns(fs, log[k].file) = RunsOf(sections[log[k].i])
    /\ (pc = "returned" /\ \E k \in DOMAIN log : log[k].msg = "found") =>
          \A j \in DOMAIN sections :
             Cardinality({ k \in DOMAIN log :
                              log[k].msg \in {"saved", "save_error"}
                              /\ log[k].i = j }) = 1

\* no page after the skipped ones contains the marker
NoMarkerLeft ==
    \A k \in (skip_pages + 1)..Len(tree.pages) :
        ~IsMarkerPage(tree.pages[k], template)

\* C7: when no page left after skipping contains the marker, no section is
\* returned, process_file reports that no matching page was found, creates
\* no output directory and writes no file.
C7_NoMatchNoWrites ==
    (pc \notin {"pf_extract", "pf_split"} /\ tree # None /\ NoMarkerLeft) =>
        /\ sections = <<>>
        /\ pc = "returned"
        /\ log = << Msg("extracting"), Msg("splitting"), Msg("no_match") >>
        /\ fs = fs0
        /\ dirs = dirs0

\* every page is skipped, one of them a marker page, and no directory exists
C7_Witness ==
    /\ pc = "returned"
    /\ tree # None
    /\ NoMarkerLeft
    /\ skip_pages >= Len(tree.pages)
    /\ \E k \in DOMAIN tree.pages : IsMarkerPage(tree.pages[k], template)
    /\ dirs0["out"] = "absent"

(***************************************************************************)
(* Properties of merge_hwpx_files (SpecMerge).                             *)
(***************************************************************************)
\* the documents of the input folder as the invocation found them
Candidates == { p \in DOMAIN fs0 : p.dir = input_folder /\ HasDocExt(p.name) }

\* the candidates in ascending order of their names
InOrder ==
    CHOOSE s \in [1..Cardinality(Candidates) -> Candidates] :
        \A j, k \in DOMAIN s : j < k => PathLess(s[j], s[k])

Opens(p) == extract_hwpx_xml(fs0, p).ok

CountMsg(m, file) ==
    Cardinality({ k \in DOMAIN log : log[k].msg = m /\ log[k].file = file })

\* C6: when the first document opens, the merged tree holds the pages of
\* exactly the documents that open and parse, in the sorted order of the
\* files and in each document's own order; a document that fails adds no
\* page, gets one warning, and the documents after it are still read.
C6_MergedPagesInOrder ==
    (pc \in {"mg_write", "returned", "raised"} /\ merged_tree # None) =>
        /\ merged_tree.pages =
              Flatten([k \in DOMAIN InOrder |->
                          IF Opens(InOrder[k])
                          THEN DeepCopy(extract_hwpx_xml(fs0, InOrder[k]).tree.pages)
                          ELSE <<>>])
        /\ \A p \in Candidates :
              /\ CountMsg("extracting_from", p) = 1
              /\ CountMsg("extract_error", p) = IF Opens(p) THEN 0 ELSE 1

\* three documents, the second fails, the others bring pages, one of them two
C6_Witness ==
    /\ pc = "returned"
    /\ merged_tree # None
    /\ Len(files) = 3
    /\ ~Opens(files[2])
    /\ Opens(files[3])
    /\ Len(extract_hwpx_xml(fs0, files[1]).tree.pages) = 2
    /\ Len(extract_hwpx_xml(fs0, files[3]).tree.pages) >= 1
    /\ Last(log).msg = "merged_saved"

\* C8: with no document in the folder, or with a first document that fails
\* to open or parse, merge_hwpx_files reports it and returns without
\* creating the output directory or merged.hwpx.
C8_NoReferenceNoWrites ==
    (/\ dirs0[input_folder] = "dir"
     /\ pc \notin {"mg_list", "mg_base"}
     /\ (Candidates = {} \/ ~Opens(InOrder[1]))) =>
        /\ pc = "returned"
        /\ fs = fs0
        /\ dirs = dirs0
        /\ log = IF Candidates = {}
                 THEN << Msg("no_files") >>
                 ELSE << [msg |-> "merging", n |-> Cardinality(Candidates)],
                         Msg("base_error") >>

\* the first document fails while a later one is sound
C8_Witness ==
    /\ pc = "returned"
    /\ Cardinality(Candidates) >= 2
    /\ ~Opens(InOrder[1])
    /\ Opens(InOrder[2])
    /\ dirs0[output_folder] = "absent"

\* every candidate is a sound document of one page that contains marker m
SinglePagesWith(m) ==
    \A p \in Candidates :
        /\ Opens(p)
        /\ Len(extract_hwpx_xml(fs0, p).tree.pages) = 1
        /\ IsMarkerPage(extract_hwpx_xml(fs0, p).tree.pages[1], m)

\* C9: merging N single-page documents whose pages contain the marker and
\* splitting the merged document with skip_pages = 0 gives N sections of one
\* page each, section k holding the page of the k-th document.
C9_MergeThenSplit ==
    \A m \in Templates :
        (/\ pc = "returned"
         /\ log # <<>>
         /\ Last(log).msg = "merged_saved"
         /\ SinglePagesWith(m)) =>
            LET r == extract_hwpx_xml(fs, MergedFile(output_folder))
                secs == split_by_template(r.tree, m, 0)
            IN  /\ r.ok
                /\ Len(secs) = Cardinality(Candidates)
                /\ \A k \in DOMAIN secs :
                      /\ Len(secs[k]) = 1
                      /\ secs[k][1].runs =
                            extract_hwpx_xml(fs0, InOrder[k]).tree.pages[1].runs

\* three single-page documents with different pages, merged and saved
C9_Witness ==
    /\ pc = "returned"
    /\ log # <<>>
    /\ Last(log).msg = "merged_saved"
    /\ Cardinality(Candidates) = 3
    /\ SinglePagesWith(<<"a">>)
    /\ extract_hwpx_xml(fs0, InOrder[1]).tree.pages[1].runs
          # extract_hwpx_xml(fs0, InOrder[3]).tree.pages[1].runs

====
